---- MODULE Spec2Model ----
(***************************************************************************)
(* Model of rasa/architecture_prototype/config_to_graph.py: the compilers  *)
(* that turn an NLU pipeline and a policy list into a task-graph schema.   *)
(*                                                                         *)
(* Task names are real strings built by concatenation, so that equality of *)
(* two task names is decided by their spelling.  Python dicts are TLA+     *)
(* functions, `d.update(e)` is `e @@ d`, and an Optional[Text] that is     *)
(* None is the empty string (the code only tests such values for           *)
(* truthiness).  The config entries live in a heap of objects so that a    *)
(* copy and an alias are different things.                                 *)
(***************************************************************************)
EXTENDS Integers, Sequences, FiniteSets, TLC

\* ------------------------------------------------------------------ bounds
MaxPipeline == 2
MaxPolicies == 2
MaxCalls == 3

\* --------------------------------------------------------------- constants
None == ""

project == "examples/moodbot"

\* The pipeline entries and policy entries a config is drawn from: entries
\* of the default config of the test.
PipelineEntries ==
    { [name |-> "WhitespaceTokenizer"],
      [name |-> "CountVectorsFeaturizer", analyzer |-> "char_wb"],
      [name |-> "DIETClassifier", epochs |-> 2] }

PolicyEntries ==
    { [name |-> "TEDPolicy", max_history |-> 5],
      [name |-> "RulePolicy"] }

\* The (component_namespace, input_task) pairs compile_nlu is called with:
\* the defaults, and the pair the E2E branch of the Core compile passes.
NluInputs ==
    { [component_namespace |-> None, input_task |-> None],
      [component_namespace |-> "core",
       input_task |-> "convert_stories_for_nlu"] }

\* The kind table of nlu_config_to_train_graph_schema.
meta ==
    [ WhitespaceTokenizer |-> "process",
      RegexFeaturizer |-> "train_process",
      LexicalSyntacticFeaturizer |-> "train_process",
      CountVectorsFeaturizer |-> "train_process",
      DIETClassifier |-> "train",
      ResponseSelector |-> "train",
      EntitySynonymMapper |-> "train" ]

\* registry.get_component_class / rasa.core.registry.policy_from_module_path:
\* a class is identified by its class name.
get_component_class(component_name) == component_name

policy_from_module_path(policy_name) == policy_name

\* "e2e_features" in inspect.signature(policy_class.train).parameters
declares_e2e_features(policy_class) == policy_class = "TEDPolicy"

\* --------------------------------------------------------- dict primitives
EmptyDict == << >>

\* dict.pop(key): the dict without the key.
pop(d, key) == [k \in DOMAIN d \ {key} |-> d[k]]

\* graph.fill_defaults: a task without `persist` gets persist = true.
fill_defaults(g) ==
    [t \in DOMAIN g |->
        IF "persist" \in DOMAIN g[t] THEN g[t] ELSE [persist |-> TRUE] @@ g[t]]

\* deepcopy of a list of entry objects: fresh objects with the same contents.
shallow_alias(h, refs) == [heap |-> h, refs |-> refs]

deepcopy(h, refs) ==
    [heap |-> h \o [k \in 1..Len(refs) |-> h[refs[k]]],
     refs |-> [k \in 1..Len(refs) |-> Len(h) + k]]

\* ------------------------------------------------------------ step builders
tpc_self_resource(component_class, input_task_name, config, name) ==
    LET n == IF name # None THEN name ELSE component_class
        train_task_name == "train_" \o n
        process_task_name == "process_" \o n
    IN  [def |->
            (process_task_name :>
                [uses |-> component_class, fn |-> "process_training_data",
                 config |-> config,
                 needs |-> [resource_name |-> process_task_name,
                            training_data |-> input_task_name]])
            @@
            (train_task_name :>
                [uses |-> component_class, fn |-> "train", config |-> config,
                 needs |-> [training_data |-> input_task_name]]),
         out |-> process_task_name]

tpc_class_resource(component_class, input_task_name, config, name) ==
    LET n == IF name # None THEN name ELSE component_class
        train_task_name == "train_" \o n
        process_task_name == "process_" \o n
    IN  [def |->
            (process_task_name :>
                [uses |-> component_class, fn |-> "process_training_data",
                 config |-> config,
                 needs |-> [resource_name |-> "train_" \o component_class,
                            training_data |-> input_task_name]])
            @@
            (train_task_name :>
                [uses |-> component_class, fn |-> "train", config |-> config,
                 needs |-> [training_data |-> input_task_name]]),
         out |-> process_task_name]

train_and_process_component(component_class, input_task_name, config, name) ==
    LET n == IF name # None THEN name ELSE component_class
        train_task_name == "train_" \o n
        process_task_name == "process_" \o n
    IN  [def |->
            (process_task_name :>
                [uses |-> component_class, fn |-> "process_training_data",
                 config |-> config,
                 needs |-> [resource_name |-> train_task_name,
                            training_data |-> input_task_name]])
            @@
            (train_task_name :>
                [uses |-> component_class, fn |-> "train", config |-> config,
                 needs |-> [training_data |-> input_task_name]]),
         out |-> process_task_name]

train_component_advances(component_class, input_task_name, config, name) ==
    LET n == IF name # None THEN name ELSE component_class
        train_task_name == "train_" \o n
    IN  [def |->
            (train_task_name :>
                [uses |-> component_class, fn |-> "train", config |-> config,
                 needs |-> [training_data |-> input_task_name]]),
         out |-> train_task_name]

train_component(component_class, input_task_name, config, name) ==
    LET n == IF name # None THEN name ELSE component_class
        train_task_name == "train_" \o n
    IN  [def |->
            (train_task_name :>
                [uses |-> component_class, fn |-> "train", config |-> config,
                 needs |-> [training_data |-> input_task_name]]),
         out |-> input_task_name]

process_component_class_out(component_class, input_task_name, config, name) ==
    LET n == IF name # None THEN name ELSE component_class
        process_task_name == "process_" \o n
    IN  [def |->
            (process_task_name :>
                [uses |-> component_class, fn |-> "process_training_data",
                 config |-> config,
                 needs |-> [training_data |-> input_task_name],
                 persist |-> FALSE]),
         out |-> "process_" \o component_class]

process_component(component_class, input_task_name, config, name) ==
    LET n == IF name # None THEN name ELSE component_class
        process_task_name == "process_" \o n
    IN  [def |->
            (process_task_name :>
                [uses |-> component_class, fn |-> "process_training_data",
                 config |-> config,
                 needs |-> [training_data |-> input_task_name],
                 persist |-> FALSE]),
         out |-> process_task_name]

\* builder = {...}[step_type]; builder(component_class=..., ...)
builder(step_type, component_class, input_task_name, config, name) ==
    CASE step_type = "process" ->
            process_component(component_class, input_task_name, config, name)
      [] step_type = "train" ->
            train_component(component_class, input_task_name, config, name)
      [] step_type = "train_process" ->
            train_and_process_component(component_class, input_task_name,
                                        config, name)

\* f"{component_name}_{i}", prefixed by f"{component_namespace}_" if given.
unique_name_no_index(component_name, idx, component_namespace) ==
    IF component_namespace # None
    THEN component_namespace \o "_" \o component_name
    ELSE component_name

unique_component_name(component_name, idx, component_namespace) ==
    LET u == component_name \o "_" \o ToString(idx)
    IN  IF component_namespace # None
        THEN component_namespace \o "_" \o u
        ELSE u

\* if step_type == "train" and only_process: continue
never_skipped(step_type, only_process) == FALSE

skipped(step_type, only_process) == step_type = "train" /\ only_process

\* for i, policy in enumerate(policies): the task of one policy and whether
\* it switches the compile to E2E.
policy_step_all_e2e(unique_policy_name, policy_class, policy) ==
    [def |->
        (unique_policy_name :>
            [uses |-> policy_class, fn |-> "train", config |-> policy,
             needs |-> [training_trackers |-> "generate_trackers",
                        domain |-> "load_domain",
                        e2e_features |-> "create_e2e_lookup"]]),
     e2e |-> TRUE]

policy_step(unique_policy_name, policy_class, policy) ==
    IF declares_e2e_features(policy_class)
    THEN [def |->
            (unique_policy_name :>
                [uses |-> policy_class, fn |-> "train", config |-> policy,
                 needs |-> [training_trackers |-> "generate_trackers",
                            domain |-> "load_domain",
                            e2e_features |-> "create_e2e_lookup"]]),
          e2e |-> TRUE]
    ELSE [def |->
            (unique_policy_name :>
                [uses |-> policy_class, fn |-> "train", config |-> policy,
                 needs |-> [training_trackers |-> "generate_trackers",
                            domain |-> "load_domain"]]),
          e2e |-> FALSE]

\* The root task of a top-level NLU compile.
load_data_graph ==
    "load_data" :>
        [uses |-> "TrainingDataReader", fn |-> "read",
         config |-> [project |-> project], needs |-> EmptyDict,
         persist |-> FALSE]

\* The three fixed tasks of the Core compile.
core_fixed_graph ==
    ("generate_trackers" :>
        [uses |-> "TrackerGenerator", fn |-> "generate", config |-> EmptyDict,
         needs |-> [domain |-> "load_domain", story_graph |-> "load_stories"],
         persist |-> FALSE])
    @@
    ("load_stories" :>
        [uses |-> "StoryGraphReader", fn |-> "read",
         config |-> [project |-> project], needs |-> EmptyDict,
         persist |-> FALSE])
    @@
    ("load_domain" :>
        [uses |-> "DomainReader", fn |-> "read",
         config |-> [project |-> project], needs |-> EmptyDict])

convert_stories_task ==
    [uses |-> "StoryToTrainingDataConverter", fn |-> "convert_for_training",
     config |-> EmptyDict, needs |-> [story_graph |-> "load_stories"],
     persist |-> FALSE]

e2e_lookup_task(sub_out) ==
    [uses |-> "MessageToE2EFeatureConverter", fn |-> "convert",
     config |-> EmptyDict, needs |-> [training_data |-> sub_out],
     persist |-> FALSE]

\* {**core_train_graph_schema, **nlu_train_graph_schema}
merge_core_only(core_schema, nlu_schema) == core_schema

merge_schemas(core_schema, nlu_schema) == nlu_schema @@ core_schema

\* [*core_outs, nlu_out]
merge_outs(core_outs, nlu_result_out) == core_outs \o <<nlu_result_out>>

\* ------------------------------------------------------------------- state
VARIABLES
    heap,                   \* the dict objects of the config entries
    config,                 \* the caller's config: lists of entry objects
    pc,                     \* "idle", "nlu" (NLU fold), "core" (policy fold)
    call,                   \* the arguments of the running top-level call
    returned,               \* what each call made so far returned last
    \* frame of nlu_config_to_train_graph_schema
    nlu_args, nlu_pipeline, i, last_component_out, nlu_train_graph,
    \* frame of core_config_to_train_graph_schema
    core_args, policies, pi, core_train_graph, policy_names, e2e,
    \* frame of old_config_to_graph_schema
    nlu_train_graph_schema, nlu_out

nluVars == <<nlu_args, nlu_pipeline, i, last_component_out, nlu_train_graph>>
coreVars == <<core_args, policies, pi, core_train_graph, policy_names, e2e>>
allVars == <<nlu_train_graph_schema, nlu_out>>
vars == <<heap, config, pc, call, returned, nluVars, coreVars, allVars>>

NoCall == [fn |-> "none", component_namespace |-> None, input_task |-> None,
           only_process |-> FALSE]
NoArgs == [caller |-> "none", base |-> 0]
NoNluArgs == [caller |-> "none", base |-> 0, component_namespace |-> None,
              input_task |-> None, only_process |-> FALSE]

Calls ==
    { [fn |-> "nlu", component_namespace |-> a.component_namespace,
       input_task |-> a.input_task, only_process |-> op] :
         a \in NluInputs, op \in BOOLEAN }
    \cup
    { [fn |-> f, component_namespace |-> None, input_task |-> None,
       only_process |-> FALSE] : f \in {"core", "all"} }

SeqsUpTo(S, n) == UNION { [1..k -> S] : k \in 0..n }

Init ==
    /\ \E p \in SeqsUpTo(PipelineEntries, MaxPipeline),
          q \in SeqsUpTo(PolicyEntries, MaxPolicies) :
          /\ heap = p \o q
          /\ config = [pipeline |-> [k \in 1..Len(p) |-> k],
                       policies |-> [k \in 1..Len(q) |-> Len(p) + k]]
    /\ pc = "idle"
    /\ call = NoCall
    /\ returned = EmptyDict
    /\ nlu_args = NoNluArgs
    /\ nlu_pipeline = << >>
    /\ i = 0
    /\ last_component_out = None
    /\ nlu_train_graph = EmptyDict
    /\ core_args = NoArgs
    /\ policies = << >>
    /\ pi = 0
    /\ core_train_graph = EmptyDict
    /\ policy_names = << >>
    /\ e2e = FALSE
    /\ nlu_train_graph_schema = EmptyDict
    /\ nlu_out = None

\* --------------------------------------------------------- frame helpers
ResetNlu ==
    /\ nlu_args' = NoNluArgs
    /\ nlu_pipeline' = << >>
    /\ i' = 0
    /\ last_component_out' = None
    /\ nlu_train_graph' = EmptyDict

ResetCore ==
    /\ core_args' = NoArgs
    /\ policies' = << >>
    /\ pi' = 0
    /\ core_train_graph' = EmptyDict
    /\ policy_names' = << >>
    /\ e2e' = FALSE

ResetAll ==
    /\ nlu_train_graph_schema' = EmptyDict
    /\ nlu_out' = None

\* The call ends and hands `result` to the caller of the entry point; the
\* objects the frames allocated are dropped.
Finish(result) ==
    /\ returned' = (call :> result) @@ returned
    /\ heap' = SubSeq(heap, 1, Len(config.pipeline) + Len(config.policies))
    /\ pc' = "idle"
    /\ call' = NoCall
    /\ ResetNlu /\ ResetCore /\ ResetAll
    /\ UNCHANGED config

\* An exception leaves every frame: the call returns nothing.
Raise == Finish([raised |-> TRUE])

\* Lines 122-146: entry of nlu_config_to_train_graph_schema.
EnterNlu(h, component_namespace, input_task, only_process, caller) ==
    LET c == deepcopy(h, config.pipeline)
    IN  /\ heap' = c.heap
        /\ nlu_pipeline' = c.refs
        /\ nlu_args' = [caller |-> caller, base |-> Len(h),
                        component_namespace |-> component_namespace,
                        input_task |-> input_task,
                        only_process |-> only_process]
        /\ i' = 0
        /\ last_component_out' =
              IF input_task # None THEN input_task ELSE "load_data"
        /\ nlu_train_graph' =
              IF input_task # None THEN EmptyDict ELSE load_data_graph
        /\ pc' = "nlu"

\* Lines 178-202: entry of core_config_to_train_graph_schema.
EnterCore(h, caller) ==
    LET c == deepcopy(h, config.policies)
    IN  /\ heap' = c.heap
        /\ policies' = c.refs
        /\ core_args' = [caller |-> caller, base |-> Len(h)]
        /\ pi' = 0
        /\ core_train_graph' = core_fixed_graph
        /\ policy_names' = << >>
        /\ e2e' = FALSE
        /\ pc' = "core"

\* Lines 250-252 and, under old_config_to_graph_schema, line 265.
CoreReturnTo(schema, outs) ==
    IF core_args.caller = "top"
    THEN Finish([raised |-> FALSE, schema |-> schema, out |-> outs])
    ELSE Finish([raised |-> FALSE,
                 schema |-> merge_schemas(schema, nlu_train_graph_schema),
                 out |-> merge_outs(outs, nlu_out)])

\* A call may be repeated; at most MaxCalls different calls are made.
CanCall(c) == c \in DOMAIN returned \/ Cardinality(DOMAIN returned) < MaxCalls

\* ----------------------------------------------------------------- actions
\* compile_nlu called from outside.
CallNlu ==
    /\ pc = "idle"
    /\ \E c \in Calls :
          /\ c.fn = "nlu"
          /\ CanCall(c)
          /\ call' = c
          /\ EnterNlu(heap, c.component_namespace, c.input_task,
                      c.only_process, "top")
    /\ UNCHANGED <<config, returned, coreVars, allVars>>

\* compile_core called from outside.
CallCore ==
    /\ pc = "idle"
    /\ \E c \in Calls :
          /\ c.fn = "core"
          /\ CanCall(c)
          /\ call' = c
    /\ EnterCore(heap, "top")
    /\ UNCHANGED <<config, returned, nluVars, allVars>>

\* compile_all called from outside: lines 258-261, it first calls the NLU
\* compile with the default arguments.
CallAll ==
    /\ pc = "idle"
    /\ \E c \in Calls :
          /\ c.fn = "all"
          /\ CanCall(c)
          /\ call' = c
    /\ EnterNlu(heap, None, None, FALSE, "all")
    /\ UNCHANGED <<config, returned, coreVars, allVars>>

\* Lines 147-168: one iteration of the NLU fold.
NluStep ==
    /\ pc = "nlu"
    /\ i < Len(nlu_pipeline)
    /\ LET r == nlu_pipeline[i + 1]
           component == heap[r]
       IN  IF "name" \notin DOMAIN component
           THEN Raise
           ELSE
             LET component_name == component.name
                 popped == pop(component, "name")
                 unique == unique_component_name(component_name, i,
                                              nlu_args.component_namespace)
                 component_class == get_component_class(component_name)
                 step_type == meta[component_class]
                 b == builder(step_type, component_class, last_component_out,
                              [component_config |-> popped], unique)
             IN  /\ heap' = [heap EXCEPT ![r] = popped]
                 /\ i' = i + 1
                 /\ IF skipped(step_type, nlu_args.only_process)
                    THEN UNCHANGED <<nlu_train_graph, last_component_out>>
                    ELSE /\ nlu_train_graph' = b.def @@ nlu_train_graph
                         /\ last_component_out' = b.out
                 /\ UNCHANGED <<config, pc, call, returned, nlu_args,
                                nlu_pipeline, coreVars, allVars>>

\* Lines 170-172, returning to the outside caller.
NluReturnTop ==
    /\ pc = "nlu"
    /\ i = Len(nlu_pipeline)
    /\ nlu_args.caller = "top"
    /\ Finish([raised |-> FALSE, schema |-> fill_defaults(nlu_train_graph),
               out |-> last_component_out])

\* Lines 170-172, returning into old_config_to_graph_schema, which then
\* calls the Core compile (lines 259-264).
NluReturnAll ==
    /\ pc = "nlu"
    /\ i = Len(nlu_pipeline)
    /\ nlu_args.caller = "all"
    /\ nlu_train_graph_schema' = fill_defaults(nlu_train_graph)
    /\ nlu_out' = last_component_out
    /\ ResetNlu
    /\ EnterCore(SubSeq(heap, 1, nlu_args.base), "all")
    /\ UNCHANGED <<config, call, returned>>

\* Lines 203-224: one iteration of the policy fold.
CoreStep ==
    /\ pc = "core"
    /\ pi < Len(policies)
    /\ LET r == policies[pi + 1]
           policy == heap[r]
       IN  IF "name" \notin DOMAIN policy
           THEN Raise
           ELSE
             LET policy_name == policy.name
                 popped == pop(policy, "name")
                 unique_policy_name == policy_name \o "_" \o ToString(pi)
                 policy_class == policy_from_module_path(policy_name)
                 s == policy_step(unique_policy_name, policy_class, popped)
             IN  /\ heap' = [heap EXCEPT ![r] = popped]
                 /\ pi' = pi + 1
                 /\ policy_names' = Append(policy_names, unique_policy_name)
                 /\ e2e' = (e2e \/ s.e2e)
                 /\ core_train_graph' = s.def @@ core_train_graph
                 /\ UNCHANGED <<config, pc, call, returned, core_args,
                                policies, nluVars, allVars>>

\* Lines 226-240: the E2E branch up to the call of the NLU sub-compile.
CoreE2E ==
    /\ pc = "core"
    /\ pi = Len(policies)
    /\ e2e
    /\ core_train_graph' =
          ("convert_stories_for_nlu" :> convert_stories_task)
          @@ core_train_graph
    /\ EnterNlu(heap, "core", "convert_stories_for_nlu", TRUE, "core")
    /\ UNCHANGED <<config, call, returned, core_args, policies, pi,
                   policy_names, e2e, allVars>>

\* Lines 170-172 of the sub-compile, then lines 241-252 of the Core compile.
NluReturnCore ==
    /\ pc = "nlu"
    /\ i = Len(nlu_pipeline)
    /\ nlu_args.caller = "core"
    /\ LET sub_schema == fill_defaults(nlu_train_graph)
           sub_out == last_component_out
           g == ("create_e2e_lookup" :> e2e_lookup_task(sub_out))
                @@ sub_schema @@ core_train_graph
       IN  CoreReturnTo(fill_defaults(g), policy_names)

\* Lines 250-252 without the E2E branch.
CoreReturn ==
    /\ pc = "core"
    /\ pi = Len(policies)
    /\ ~e2e
    /\ CoreReturnTo(fill_defaults(core_train_graph), policy_names)

Next ==
    \/ CallNlu
    \/ CallCore
    \/ CallAll
    \/ NluStep
    \/ NluReturnTop
    \/ NluReturnAll
    \/ NluReturnCore
    \/ CoreStep
    \/ CoreE2E
    \/ CoreReturn

Spec == Init /\ [][Next]_vars

\* ------------------------------------------------------- reading the state
\* The caller's config as values, and the entries by position (1-based; the
\* code's ordinal index of position k is k - 1).
ConfigContents ==
    [pipeline |-> [k \in 1..Len(config.pipeline) |-> heap[config.pipeline[k]]],
     policies |-> [k \in 1..Len(config.policies) |-> heap[config.policies[k]]]]

NPipeline == Len(config.pipeline)
NPolicies == Len(config.policies)
EntryName(k) == heap[config.pipeline[k]].name
EntryKind(k) == meta[EntryName(k)]
PolicyName(k) == heap[config.policies[k]].name
TrainOnly == { k \in 1..NPipeline : EntryKind(k) = "train" }
ProcessCapable == { k \in 1..NPipeline : EntryKind(k) # "train" }

\* The unique name the spec gives entry k: [<namespace>_]<name>_<index>.
UName(ns, k) ==
    (IF ns # None THEN ns \o "_" ELSE "") \o EntryName(k) \o "_" \o ToString(k - 1)
PolicyKey(k) == PolicyName(k) \o "_" \o ToString(k - 1)

NluCall(ns, it, op) ==
    [fn |-> "nlu", component_namespace |-> ns, input_task |-> it,
     only_process |-> op]
CoreCall == [fn |-> "core", component_namespace |-> None, input_task |-> None,
             only_process |-> FALSE]
AllCall == [fn |-> "all", component_namespace |-> None, input_task |-> None,
            only_process |-> FALSE]
SubCall == NluCall("core", "convert_stories_for_nlu", TRUE)
\* `returned` changes only when a call ends, which leaves pc = "idle": the
\* results are read in those states.
Results == IF pc = "idle" THEN DOMAIN returned ELSE {}
Ok(c) == c \in Results /\ ~returned[c].raised

NeedsOf(g) ==
    UNION { { g[t].needs[p] : p \in DOMAIN g[t].needs } : t \in DOMAIN g }
External(it) == IF it # None THEN {it} ELSE {}

\* The schema the NLU frame is about to return.
AtNluReturn == pc = "nlu" /\ i = Len(nlu_pipeline)

\* ---------------------------------------------------------------------- C1
C1_Witness ==
    \E c \in Results :
        /\ Ok(c) /\ c.fn = "nlu" /\ c.input_task # None
        /\ c.input_task \in NeedsOf(returned[c].schema)
        /\ Cardinality(DOMAIN returned[c].schema) >= 2

\* C1 as stated: every task name that is a value of a `needs` mapping of a
\* returned schema is a key of that schema, for compile_nlu (with or without
\* input_task), compile_core and compile_all.
C1_Original ==
    /\ \A c \in Results :
          Ok(c) => NeedsOf(returned[c].schema) \subseteq DOMAIN returned[c].schema
    /\ AtNluReturn => NeedsOf(nlu_train_graph) \subseteq DOMAIN nlu_train_graph

\* C1 amended: in every returned schema every `needs` value is a key of the
\* schema, except that a schema returned by compile_nlu called with an
\* input_task may also name that input_task, which it does not contain.
C1_Closure ==
    /\ \A c \in Results :
          Ok(c) => NeedsOf(returned[c].schema)
                      \subseteq DOMAIN returned[c].schema
                                \cup (IF c.fn = "nlu" THEN External(c.input_task)
                                      ELSE {})
    /\ AtNluReturn =>
          NeedsOf(nlu_train_graph)
             \subseteq DOMAIN nlu_train_graph \cup External(nlu_args.input_task)

\* ---------------------------------------------------------------------- C2
C2_Witness ==
    /\ AtNluReturn
    /\ nlu_args.input_task # None
    /\ i = 2
    /\ EntryKind(1) # "train"
    /\ EntryKind(2) = "train"
    /\ last_component_out \in DOMAIN nlu_train_graph

\* C2 as stated: throughout the NLU fold and at return the output pointer
\* names a key of the schema accumulated so far, also with an input_task.
C2_Original ==
    /\ pc = "nlu" => last_component_out \in DOMAIN nlu_train_graph
    /\ \A c \in Results :
          (Ok(c) /\ c.fn = "nlu") => returned[c].out \in DOMAIN returned[c].schema

\* C2 amended: throughout the NLU fold and at return the output pointer
\* names a key of the schema accumulated so far, except that in a call with
\* an externally supplied input_task it is that input_task, which is no key
\* of the schema, as long as no process-capable entry has been folded.
C2_Pointer ==
    /\ pc = "nlu" =>
          IF nlu_args.input_task # None
             /\ { k \in 1..i : EntryKind(k) # "train" } = {}
          THEN /\ last_component_out = nlu_args.input_task
               /\ last_component_out \notin DOMAIN nlu_train_graph
          ELSE last_component_out \in DOMAIN nlu_train_graph
    /\ \A c \in Results :
          (Ok(c) /\ c.fn = "nlu") =>
              IF c.input_task # None /\ ProcessCapable = {}
              THEN /\ returned[c].out = c.input_task
                   /\ returned[c].out \notin DOMAIN returned[c].schema
              ELSE returned[c].out \in DOMAIN returned[c].schema

\* ---------------------------------------------------------------------- C3
\* The task an entry's stage must read: the process task of the nearest
\* earlier process-capable entry, or the root.
Producer(k) ==
    LET S == { j \in 1..(k - 1) : EntryKind(j) # "train" }
        m == CHOOSE j \in S : \A x \in S : x <= j
    IN  IF S = {}
        THEN (IF nlu_args.input_task # None THEN nlu_args.input_task
              ELSE "load_data")
        ELSE "process_" \o UName(nlu_args.component_namespace, m)

C3_Step ==
    (pc = "nlu" /\ pc' = "nlu" /\ i' = i + 1) =>
        LET k == i + 1
            u == UName(nlu_args.component_namespace, k)
            tr == "train_" \o u
            pr == "process_" \o u
            kind == EntryKind(k)
        IN  (~(kind = "train" /\ nlu_args.only_process)) =>
              /\ kind \in {"train", "train_process"} =>
                    /\ tr \in DOMAIN nlu_train_graph'
                    /\ nlu_train_graph'[tr].needs.training_data
                          = last_component_out
              /\ kind \in {"process", "train_process"} =>
                    /\ pr \in DOMAIN nlu_train_graph'
                    /\ nlu_train_graph'[pr].needs.training_data
                          = last_component_out
              /\ kind = "train" => last_component_out' = last_component_out
              /\ kind # "train" => last_component_out' = pr

C3_Nearest ==
    pc = "nlu" =>
        \A k \in 1..i :
            LET u == UName(nlu_args.component_namespace, k)
            IN  \A t \in {"train_" \o u, "process_" \o u} :
                    t \in DOMAIN nlu_train_graph =>
                        nlu_train_graph[t].needs.training_data = Producer(k)

C3_Witness ==
    /\ pc = "nlu"
    /\ i = 2
    /\ ~nlu_args.only_process
    /\ EntryKind(1) = "train"
    /\ EntryKind(2) = "train_process"
    /\ last_component_out
          = "process_" \o UName(nlu_args.component_namespace, 2)
    /\ nlu_train_graph[last_component_out].needs.training_data = "load_data"

\* C3: a folded entry's tasks read training_data from the pointer held
\* before the step; a train-only step leaves the pointer as it was, a
\* process or train-and-process step sets it to process_<unique-name>; so
\* every stage reads the process task of the nearest earlier
\* process-capable entry, or the root when there is none.
C3_PointerRule == [][C3_Step]_vars /\ []C3_Nearest

\* ---------------------------------------------------------------------- C4
TasksOf(ns, K) ==
    { "train_" \o UName(ns, k) : k \in K } \cup { "process_" \o UName(ns, k) : k \in K }

C4_Witness ==
    /\ AtNluReturn
    /\ nlu_args.only_process
    /\ NPipeline = 2
    /\ EntryKind(1) = "train"
    /\ EntryKind(2) = "train_process"
    /\ last_component_out
          = "process_" \o UName(nlu_args.component_namespace, 2)

\* C4: with only_process set, on a pipeline with a train-only and a
\* process-capable entry, the schema to be returned holds no task of a
\* train-only entry, no `needs` value and not the output name is such a
\* task, and the surviving entries' tasks carry the index of their position
\* in the original pipeline.
C4_OnlyProcess ==
    (AtNluReturn /\ nlu_args.only_process
        /\ TrainOnly # {} /\ ProcessCapable # {}) =>
        LET ns == nlu_args.component_namespace
            dropped == TasksOf(ns, TrainOnly)
        IN  /\ DOMAIN nlu_train_graph \cap dropped = {}
            /\ NeedsOf(nlu_train_graph) \cap dropped = {}
            /\ last_component_out \notin dropped
            /\ DOMAIN nlu_train_graph =
                  (IF nlu_args.input_task # None THEN {} ELSE {"load_data"})
                  \cup { "process_" \o UName(ns, k) : k \in ProcessCapable }
                  \cup { "train_" \o UName(ns, k) :
                            k \in { j \in ProcessCapable :
                                      EntryKind(j) = "train_process" } }

\* ---------------------------------------------------------------------- C5
AnyE2E == \E k \in 1..NPolicies : declares_e2e_features(PolicyName(k))

C5_Witness ==
    /\ Ok(CoreCall) /\ Ok(SubCall)
    /\ NPolicies = 2
    /\ declares_e2e_features(PolicyName(1)) # declares_e2e_features(PolicyName(2))
    /\ ProcessCapable # {}
    /\ returned[CoreCall].schema["create_e2e_lookup"].needs.training_data
          # "convert_stories_for_nlu"

\* C5: in the schema compile_core returns, a policy task needs
\* e2e_features -> create_e2e_lookup exactly when the policy's train
\* operation declares e2e_features (the others need exactly training_trackers
\* and domain); and when some policy declares it, the schema holds
\* convert_stories_for_nlu (needing story_graph -> load_stories) and
\* create_e2e_lookup, whose training_data is the output of the NLU compile
\* run with namespace core, input convert_stories_for_nlu and only_process.
C5_E2EFanOut ==
    Ok(CoreCall) =>
        LET g == returned[CoreCall].schema
        IN  /\ \A k \in 1..NPolicies :
                  /\ PolicyKey(k) \in DOMAIN g
                  /\ g[PolicyKey(k)].needs =
                        IF declares_e2e_features(PolicyName(k))
                        THEN [training_trackers |-> "generate_trackers",
                              domain |-> "load_domain",
                              e2e_features |-> "create_e2e_lookup"]
                        ELSE [training_trackers |-> "generate_trackers",
                              domain |-> "load_domain"]
            /\ AnyE2E =>
                  /\ "convert_stories_for_nlu" \in DOMAIN g
                  /\ g["convert_stories_for_nlu"].needs
                        = [story_graph |-> "load_stories"]
                  /\ "create_e2e_lookup" \in DOMAIN g
                  /\ DOMAIN g["create_e2e_lookup"].needs = {"training_data"}
                  /\ Ok(SubCall) =>
                        g["create_e2e_lookup"].needs.training_data
                           = returned[SubCall].out

\* ---------------------------------------------------------------------- C6
TopNluCall == NluCall(None, None, FALSE)

C6_Witness ==
    /\ Ok(AllCall) /\ Ok(CoreCall) /\ Ok(TopNluCall)
    /\ AnyE2E
    /\ NPolicies = 2
    /\ ProcessCapable # {}
    /\ TrainOnly # {}

\* C6: the schema compile_all returns is the union of the schemas of
\* compile_core and of top-level compile_nlu run on the same config, whose
\* key sets are disjoint; its output list is the policy task names in policy
\* order followed by the NLU output name, each a key of the merged schema.
C6_Merge ==
    Ok(AllCall) =>
        LET a == returned[AllCall]
        IN  /\ \A k \in 1..Len(a.out) : a.out[k] \in DOMAIN a.schema
            /\ Len(a.out) = NPolicies + 1
            /\ \A k \in 1..NPolicies : a.out[k] = PolicyKey(k)
            /\ Ok(CoreCall) /\ Ok(TopNluCall) =>
                  LET c == returned[CoreCall]
                      n == returned[TopNluCall]
                  IN  /\ DOMAIN c.schema \cap DOMAIN n.schema = {}
                      /\ DOMAIN a.schema = DOMAIN c.schema \cup DOMAIN n.schema
                      /\ \A t \in DOMAIN c.schema : a.schema[t] = c.schema[t]
                      /\ \A t \in DOMAIN n.schema : a.schema[t] = n.schema[t]
                      /\ a.out = c.out \o <<n.out>>

\* ---------------------------------------------------------------------- C7
C7_Step ==
    /\ ConfigContents' = ConfigContents
    /\ \A c \in DOMAIN returned' : ~returned'[c].raised
    /\ \A c \in DOMAIN returned \cap DOMAIN returned' : returned'[c] = returned[c]

C7_Witness ==
    /\ call \in DOMAIN returned
    /\ call.fn = "all"
    /\ pc = "nlu"
    /\ nlu_args.caller = "core"
    /\ i = Len(nlu_pipeline)
    /\ i = 2
    /\ NPolicies = 2

\* C7: no step of a compile changes the caller's config (every entry keeps
\* all its keys, `name` included), and a call repeated on the same config
\* returns exactly what it returned before.
C7_NoMutationRepeatable == [][C7_Step]_vars

\* ---------------------------------------------------------------------- C8
\* Number of task nodes the NLU fold emits for the first n entries.
NluNodes(n, it, op) ==
    (IF it # None THEN 0 ELSE 1)
    + Cardinality({ k \in 1..n : ~(EntryKind(k) = "train" /\ op) })
    + Cardinality({ k \in 1..n : EntryKind(k) = "train_process" })

CoreNodes ==
    3 + NPolicies
    + (IF AnyE2E
       THEN 2 + NluNodes(NPipeline, "convert_stories_for_nlu", TRUE)
       ELSE 0)

Distinct(seq) == \A a, b \in 1..Len(seq) : a # b => seq[a] # seq[b]

C8_Witness ==
    /\ AtNluReturn
    /\ i = 2
    /\ EntryName(1) = EntryName(2)
    /\ EntryKind(1) = "train_process"
    /\ Cardinality(DOMAIN nlu_train_graph) >= 4
    /\ core_args.caller = "top"
    /\ Len(policy_names) = 2
    /\ PolicyName(1) = PolicyName(2)

\* C8: within one compile no two entries produce the same task name, also
\* when they share a component name: the schema holds as many tasks as task
\* nodes were emitted (one per process-only or train-only entry, two per
\* train-and-process entry, plus the fixed tasks), and the policy task names
\* are pairwise different.
C8_Unique ==
    /\ pc = "nlu" =>
          Cardinality(DOMAIN nlu_train_graph)
             = NluNodes(i, nlu_args.input_task, nlu_args.only_process)
    /\ pc = "core" =>
          /\ Cardinality(DOMAIN core_train_graph) = 3 + pi
          /\ Distinct(policy_names)
    /\ Ok(CoreCall) =>
          /\ Cardinality(DOMAIN returned[CoreCall].schema) = CoreNodes
          /\ Distinct(returned[CoreCall].out)
    /\ Ok(AllCall) =>
          Cardinality(DOMAIN returned[AllCall].schema)
             = CoreNodes + NluNodes(NPipeline, None, FALSE)

\* --------------------------------------------------------------------- C10
\* Tasks are removed once everything they need inside the schema is removed;
\* the schema is acyclic exactly when every task gets removed.
RECURSIVE Peel(_, _)
Peel(g, done) ==
    LET ready == { t \in DOMAIN g \ done :
                     \A p \in DOMAIN g[t].needs :
                        g[t].needs[p] \in done \/ g[t].needs[p] \notin DOMAIN g }
    IN  IF ready = {} THEN done ELSE Peel(g, done \cup ready)

Acyclic(g) == Peel(g, {}) = DOMAIN g

C10_Witness ==
    /\ Ok(AllCall)
    /\ AnyE2E
    /\ \E k \in ProcessCapable : EntryKind(k) = "train_process"
    /\ NPipeline = 2

\* C10: the graph of every returned schema, with an edge from each task to
\* every task its `needs` names, has no cycle.
C10_Acyclic ==
    /\ \A c \in Results : Ok(c) => Acyclic(returned[c].schema)
    /\ AtNluReturn => Acyclic(nlu_train_graph)

====
